---- MODULE Spec2Model ----
(***************************************************************************)
(* The GlusterFS state module salt/states/glusterfs.py: the four           *)
(* reconcilers peered, volume_present, started and add_volume_bricks,      *)
(* run one call at a time against a live cluster (peer set, volumes with   *)
(* their status and bricks) that the gluster execution module mutates and  *)
(* that other administrators may mutate between any two steps of a call.   *)
(***************************************************************************)
EXTENDS Integers, Sequences, FiniteSets, TLC

VARIABLES
    peers,            \* live cluster: the peer set glusterfs.list_peers reports
    volinfo,          \* live cluster: volume name -> [status, bricks] (glusterfs.info)
    test,             \* __opts__['test'], fixed for the whole run
    pc,               \* position of the running reconciler call
    op,               \* which reconciler is running
    name,             \* argument `name`
    bricks,           \* argument `bricks`
    start,            \* argument `start` of volume_present
    ret,              \* the dict `ret` of the running call
    l_peers,          \* local `peers` of peered
    l_volumes,        \* local `volumes` of volume_present
    l_current_bricks, \* local `current_bricks` of add_volume_bricks
    acts,             \* how often this call used each __salt__ function so far
    resolved,         \* what socket.gethostbyname made of `name` in this call
    before,           \* the live cluster as it was when this call began
    outcomes,         \* the kinds of executor outcome this call has met
    quiet,            \* no outside change since this call began
    prev,             \* the call before this one, as it ended, when this one repeats it
    ncalls,           \* calls begun so far
    ext               \* outside changes so far

vars == <<peers, volinfo, test, pc, op, name, bricks, start, ret, l_peers,
          l_volumes, l_current_bricks, acts, resolved, before, outcomes, quiet,
          prev, ncalls, ext>>

-----------------------------------------------------------------------------
(* Bounds of the model *)

MaxCalls == 2
MaxExternal == 1

(* Resource names are sequences of characters. *)
Names == { <<"v", "1">>, <<"b", "!">> }

BrickPaths == { "h1:/b1", "h2:/b2" }

(* The `bricks` arguments tried. *)
BrickArgs == { <<"h1:/b1">>, <<"h2:/b2", "h1:/b1">> }

(* The brick lists an outside administrator gives a volume. *)
BrickLists == { <<"h1:/b1">>, <<"h1:/b1", "h2:/b2">> }

(* 'status' of a volume in glusterfs.info: "0" created, "1" started. *)
Statuses == { "0", "1" }

-----------------------------------------------------------------------------
(* Helpers *)

Range(s) == { s[i] : i \in DOMAIN s }

(* The characters of the class a-zA-Z0-9._- that the names above draw on. *)
SafeChars == { "v", "n", "b", "1", "2", ".", "_", "-" }

(* suc.check_name(name, 'a-zA-Z0-9._-'): true when the name holds a        *)
(* character outside the class.                                            *)
check_name(n) == \E i \in DOMAIN n : n[i] \notin SafeChars

(* int(volinfo[name]['status']) *)
int(s) == CASE s = "0" -> 0 [] s = "1" -> 1 [] s = "2" -> 2

(* Python truth value of a dict: it has a key. {} is <<>>. *)
Truthy(d) == DOMAIN d # {}

(* The dict every reconciler starts from. *)
NewRet(n) == [name |-> n, changes |-> <<>>, comment |-> <<>>, result |-> "False"]

SaltFunctions == { "network.ip_addrs", "glusterfs.list_peers", "glusterfs.peer",
                   "glusterfs.list_volumes", "glusterfs.create_volume",
                   "glusterfs.info", "glusterfs.start_volume",
                   "glusterfs.add_volume_bricks" }

NoActs == [f \in SaltFunctions |-> 0]

Used(f) == [acts EXCEPT ![f] = @ + 1]

(* The live structure with volume n set to v. *)
WithVolume(info, n, v) ==
    [m \in DOMAIN info \cup {n} |-> IF m = n THEN v ELSE info[m]]

WithoutVolume(info, n) == [m \in DOMAIN info \ {n} |-> info[m]]

(* s followed by the members of t that s lacks, in t's order. *)
RECURSIVE Extend(_, _)
Extend(s, t) ==
    IF t = <<>> THEN s
    ELSE Extend(IF Head(t) \in Range(s) THEN s ELSE Append(s, Head(t)), Tail(t))

Idle == pc \in {"idle", "done", "raised"}

NoPrev == [op |-> "none"]

(* What a call leaves behind for a repetition of it to compare with. *)
Ended == [op |-> op, name |-> name, bricks |-> bricks, start |-> start,
          pc |-> pc, ret |-> ret, acts |-> acts, resolved |-> resolved,
          before |-> before, outcomes |-> outcomes, quiet |-> quiet]

-----------------------------------------------------------------------------
Init ==
    /\ peers = {}
    /\ volinfo = <<>>
    /\ test \in BOOLEAN
    /\ pc = "idle"
    /\ op = "none"
    /\ name = <<>>
    /\ bricks = <<>>
    /\ start = FALSE
    /\ ret = NewRet(<<>>)
    /\ l_peers = {}
    /\ l_volumes = {}
    /\ l_current_bricks = <<>>
    /\ acts = NoActs
    /\ resolved = "none"
    /\ before = [peers |-> {}, volinfo |-> <<>>]
    /\ outcomes = {}
    /\ quiet = TRUE
    /\ prev = NoPrev
    /\ ncalls = 0
    /\ ext = 0

(* The part of a new call that every reconciler shares. *)
Begin(o, n, b, s) ==
    /\ Idle
    /\ ncalls < MaxCalls
    /\ ncalls' = ncalls + 1
    /\ prev' = IF op = o /\ name = n /\ bricks = b /\ start = s THEN Ended ELSE NoPrev
    /\ op' = o
    /\ name' = n
    /\ bricks' = b
    /\ start' = s
    /\ acts' = NoActs
    /\ resolved' = "none"
    /\ before' = [peers |-> peers, volinfo |-> volinfo]
    /\ outcomes' = {}
    /\ quiet' = TRUE
    /\ l_peers' = {}
    /\ l_volumes' = {}
    /\ l_current_bricks' = <<>>
    /\ UNCHANGED <<peers, volinfo, test, ext>>

Frame == UNCHANGED <<test, op, name, bricks, start, before, quiet, prev, ncalls, ext>>

(* What an executor call can do: report success and take effect, report    *)
(* success without effect, or report failure without effect.               *)
Outcomes == { o \in [reported : BOOLEAN, effect : BOOLEAN] : o.effect => o.reported }

(* The kind of an outcome, given whether the action could take effect. *)
Kind(o, possible) ==
    IF ~o.reported THEN "failed" ELSE IF o.effect /\ possible THEN "ok" ELSE "lied"

Return(r) == pc' = "done" /\ ret' = r

-----------------------------------------------------------------------------
(* peered(name) *)

(* Mutation: the test for an already peered host never succeeds. *)
AlreadyPeeredNever(ps, n) == FALSE

(* Mutation: any non-empty peer list counts as holding the name. *)
AlreadyPeeredAny(ps, n) == ps # {}

(* `peers and name in peers` *)
AlreadyPeered(ps, n) == ps # {} /\ n \in ps

CallPeered(n) ==
    /\ Begin("peered", n, <<>>, FALSE)
    /\ ret' = NewRet(n)
    /\ pc' = "p_resolve"

(* Mutation: a local name is treated like any other. *)
PeeredResolveNoShortCircuit ==
    /\ pc = "p_resolve"
    /\ \E r \in {"local", "remote", "unresolved"} :
         /\ resolved' = r
         /\ IF r = "unresolved"
              THEN pc' = "raised" /\ UNCHANGED <<ret, acts>>
              ELSE /\ acts' = Used("network.ip_addrs")
                   /\ pc' = "p_list"
                   /\ UNCHANGED ret
    /\ UNCHANGED <<peers, volinfo, l_peers, l_volumes, l_current_bricks, outcomes>>
    /\ Frame

(* socket.gethostbyname(name) in __salt__['network.ip_addrs'](): the name  *)
(* resolves to a local address, to another address, or does not resolve    *)
(* and gethostbyname raises socket.gaierror before ip_addrs is called.     *)
PeeredResolve ==
    /\ pc = "p_resolve"
    /\ \E r \in {"local", "remote", "unresolved"} :
         /\ resolved' = r
         /\ CASE r = "unresolved" ->
                   /\ pc' = "raised"
                   /\ UNCHANGED <<ret, acts>>
              [] r = "local" ->
                   /\ acts' = Used("network.ip_addrs")
                   /\ Return([ret EXCEPT !.result = "True",
                                !.comment = <<"Peering with localhost is not needed">>])
              [] r = "remote" ->
                   /\ acts' = Used("network.ip_addrs")
                   /\ pc' = "p_list"
                   /\ UNCHANGED ret
    /\ UNCHANGED <<peers, volinfo, l_peers, l_volumes, l_current_bricks, outcomes>>
    /\ Frame

PeeredListPeers ==
    /\ pc = "p_list"
    /\ l_peers' = peers
    /\ acts' = Used("glusterfs.list_peers")
    /\ IF AlreadyPeered(peers, name)
         THEN Return([ret EXCEPT !.result = "True",
                        !.comment = <<"Host {0} already peered">>])
       ELSE IF check_name(name)
         THEN Return([ret EXCEPT !.result = "False",
                        !.comment = <<"Invalid characters in peer name.">>])
       ELSE IF test
         THEN Return([ret EXCEPT !.result = "None",
                        !.comment = <<"Peer {0} will be added.">>])
       ELSE pc' = "p_peer" /\ UNCHANGED ret
    /\ UNCHANGED <<peers, volinfo, l_volumes, l_current_bricks, resolved, outcomes>>
    /\ Frame

PeeredPeer ==
    /\ pc = "p_peer"
    /\ \E o \in Outcomes :
         /\ peers' = IF o.effect THEN peers \cup {name} ELSE peers
         /\ outcomes' = outcomes \cup {Kind(o, TRUE)}
         /\ IF ~o.reported
              THEN Return([ret EXCEPT !.comment =
                     <<"Failed to peer with {0}, please check logs for errors">>])
              ELSE pc' = "p_verify" /\ UNCHANGED ret
    /\ acts' = Used("glusterfs.peer")
    /\ UNCHANGED <<volinfo, l_peers, l_volumes, l_current_bricks, resolved>>
    /\ Frame

(* Mutation: the peer list is read again but the name is not looked for. *)
PeeredVerifyTrusting ==
    /\ pc = "p_verify"
    /\ acts' = Used("glusterfs.list_peers")
    /\ Return([ret EXCEPT !.result = "True",
                  !.comment = <<"Host {0} successfully peered">>,
                  !.changes = [new |-> peers, old |-> l_peers]])
    /\ UNCHANGED <<peers, volinfo, l_peers, l_volumes, l_current_bricks, resolved, outcomes>>
    /\ Frame

PeeredVerify ==
    /\ pc = "p_verify"
    /\ acts' = Used("glusterfs.list_peers")
    /\ IF AlreadyPeered(peers, name)
         THEN Return([ret EXCEPT !.result = "True",
                        !.comment = <<"Host {0} successfully peered">>,
                        !.changes = [new |-> peers, old |-> l_peers]])
         ELSE Return([ret EXCEPT !.comment =
                <<"Host {0} was successfully peered but did not appear in the list of peers">>])
    /\ UNCHANGED <<peers, volinfo, l_peers, l_volumes, l_current_bricks, resolved, outcomes>>
    /\ Frame

-----------------------------------------------------------------------------
(* volume_present(name, bricks, ..., start=False, ...) *)

(* Mutation: the test for a started volume is inverted. *)
IsStartedInverted(info, n) == int(info[n].status) # 1

(* int(__salt__['glusterfs.info']()[name]['status']) == 1 *)
IsStarted(info, n) == int(info[n].status) = 1

(* Lines 157-162 and 177: what follows once the creation part is through,  *)
(* up to the look at the volume's status.                                  *)
AfterCreation(r) ==
    IF start
      THEN IF test
             THEN Return([r EXCEPT !.comment = @ \o <<" and will be started">>,
                            !.result = "None"])
             ELSE pc' = "vp_info" /\ ret' = r
      ELSE Return([r EXCEPT !.result = "True"])

(* Mutation: the name is not checked before the volumes are listed. *)
CallVolumePresentUnchecked(n, b, s) ==
    /\ Begin("volume_present", n, b, s)
    /\ pc' = "vp_list"
    /\ ret' = NewRet(n)

CallVolumePresent(n, b, s) ==
    /\ Begin("volume_present", n, b, s)
    /\ IF check_name(n)
         THEN Return([NewRet(n) EXCEPT !.comment =
                <<"Invalid characters in volume name.">>])
         ELSE pc' = "vp_list" /\ ret' = NewRet(n)

VolumePresentList ==
    /\ pc = "vp_list"
    /\ l_volumes' = DOMAIN volinfo
    /\ acts' = Used("glusterfs.list_volumes")
    /\ IF name \notin DOMAIN volinfo
         THEN IF test
                THEN Return([ret EXCEPT !.result = "None",
                       !.comment = IF start
                                     THEN <<"Volume {0} will be created", " and started">>
                                     ELSE <<"Volume {0} will be created">>])
                ELSE pc' = "vp_create" /\ UNCHANGED ret
         ELSE AfterCreation([ret EXCEPT !.comment = <<"Volume {0} already exists">>])
    /\ UNCHANGED <<peers, volinfo, l_peers, l_current_bricks, resolved, outcomes>>
    /\ Frame

(* glusterfs.create_volume(name, bricks, ..., start, force): when it takes *)
(* effect the volume exists with these bricks; with start it may also      *)
(* have been started.                                                      *)
(* Mutation: a failed creation does not end the call. *)
VolumePresentCreateGoesOn ==
    /\ pc = "vp_create"
    /\ acts' = Used("glusterfs.create_volume")
    /\ \E o \in Outcomes, st \in (IF start THEN Statuses ELSE {"0"}) :
         /\ volinfo' = IF o.effect /\ name \notin DOMAIN volinfo
                         THEN WithVolume(volinfo, name, [status |-> st, bricks |-> bricks])
                         ELSE volinfo
         /\ outcomes' = outcomes \cup {Kind(o, TRUE)}
         /\ pc' = "vp_relist"
         /\ ret' = IF ~o.reported
                     THEN [ret EXCEPT !.comment =
                       <<"Creation of volume {0} failed. Check logs for further information">>]
                     ELSE ret
    /\ UNCHANGED <<peers, l_peers, l_volumes, l_current_bricks, resolved>>
    /\ Frame

VolumePresentCreate ==
    /\ pc = "vp_create"
    /\ acts' = Used("glusterfs.create_volume")
    /\ \E o \in Outcomes, st \in (IF start THEN Statuses ELSE {"0"}) :
         /\ volinfo' = IF o.effect /\ name \notin DOMAIN volinfo
                         THEN WithVolume(volinfo, name, [status |-> st, bricks |-> bricks])
                         ELSE volinfo
         /\ outcomes' = outcomes \cup {Kind(o, TRUE)}
         /\ IF ~o.reported
              THEN Return([ret EXCEPT !.comment =
                     <<"Creation of volume {0} failed. Check logs for further information">>])
              ELSE pc' = "vp_relist" /\ UNCHANGED ret
    /\ UNCHANGED <<peers, l_peers, l_volumes, l_current_bricks, resolved>>
    /\ Frame

(* Mutation: the two volume lists change places in `changes`. *)
VolumePresentRelistSwapped ==
    /\ pc = "vp_relist"
    /\ acts' = Used("glusterfs.list_volumes")
    /\ l_volumes' = DOMAIN volinfo
    /\ AfterCreation(IF name \in DOMAIN volinfo
                       THEN [ret EXCEPT !.changes = [new |-> l_volumes, old |-> DOMAIN volinfo],
                                        !.comment = <<"Volume {0} is created">>]
                       ELSE ret)
    /\ UNCHANGED <<peers, volinfo, l_peers, l_current_bricks, resolved, outcomes>>
    /\ Frame

VolumePresentRelist ==
    /\ pc = "vp_relist"
    /\ acts' = Used("glusterfs.list_volumes")
    /\ l_volumes' = DOMAIN volinfo
    /\ AfterCreation(IF name \in DOMAIN volinfo
                       THEN [ret EXCEPT !.changes = [new |-> DOMAIN volinfo, old |-> l_volumes],
                                        !.comment = <<"Volume {0} is created">>]
                       ELSE ret)
    /\ UNCHANGED <<peers, volinfo, l_peers, l_current_bricks, resolved, outcomes>>
    /\ Frame

(* Line 163: glusterfs.info()[name] raises KeyError when the volume is     *)
(* not in the answer.                                                      *)
VolumePresentInfo ==
    /\ pc = "vp_info"
    /\ acts' = Used("glusterfs.info")
    /\ IF name \notin DOMAIN volinfo
         THEN pc' = "raised" /\ UNCHANGED ret
       ELSE IF IsStarted(volinfo, name)
         THEN Return([ret EXCEPT !.comment = @ \o <<" and is started">>,
                        !.result = "True"])
       ELSE pc' = "vp_start" /\ UNCHANGED ret
    /\ UNCHANGED <<peers, volinfo, l_peers, l_volumes, l_current_bricks, resolved, outcomes>>
    /\ Frame

VolumePresentStart ==
    /\ pc = "vp_start"
    /\ acts' = Used("glusterfs.start_volume")
    /\ \E o \in Outcomes :
         /\ volinfo' = IF o.effect /\ name \in DOMAIN volinfo
                         THEN [volinfo EXCEPT ![name].status = "1"]
                         ELSE volinfo
         /\ outcomes' = outcomes \cup {Kind(o, name \in DOMAIN volinfo)}
         /\ IF o.reported
              THEN Return([ret EXCEPT !.result = "True",
                     !.comment = @ \o <<" and is now started">>,
                     !.changes = IF ~Truthy(@)
                                   THEN [new |-> "started", old |-> "stopped"]
                                   ELSE @])
              ELSE Return([ret EXCEPT !.comment = @ \o
                     <<" but failed to start. Check logs for further information">>])
    /\ UNCHANGED <<peers, l_peers, l_volumes, l_current_bricks, resolved>>
    /\ Frame

-----------------------------------------------------------------------------
(* started(name) *)

CallStarted(n) ==
    /\ Begin("started", n, <<>>, FALSE)
    /\ ret' = NewRet(n)
    /\ pc' = "st_info"

StartedInfo ==
    /\ pc = "st_info"
    /\ acts' = Used("glusterfs.info")
    /\ IF name \notin DOMAIN volinfo
         THEN Return([ret EXCEPT !.result = "False",
                        !.comment = <<"Volume {0} does not exist">>])
       ELSE IF IsStarted(volinfo, name)
         THEN Return([ret EXCEPT !.comment = <<"Volume {0} is already started">>,
                        !.result = "True"])
       ELSE IF test
         THEN Return([ret EXCEPT !.comment = <<"Volume {0} will be started">>,
                        !.result = "None"])
       ELSE pc' = "st_start" /\ UNCHANGED ret
    /\ UNCHANGED <<peers, volinfo, l_peers, l_volumes, l_current_bricks, resolved, outcomes>>
    /\ Frame

(* Line 229 stores the change under the key 'change'; 'changes' stays {}. *)
StartedStart ==
    /\ pc = "st_start"
    /\ acts' = Used("glusterfs.start_volume")
    /\ \E o \in Outcomes :
         /\ volinfo' = IF o.effect /\ name \in DOMAIN volinfo
                         THEN [volinfo EXCEPT ![name].status = "1"]
                         ELSE volinfo
         /\ outcomes' = outcomes \cup {Kind(o, name \in DOMAIN volinfo)}
         /\ IF o.reported
              THEN Return([name |-> ret.name, changes |-> ret.changes,
                           result |-> "True",
                           comment |-> <<"Volume {0} is started">>,
                           change |-> [new |-> "started", old |-> "stopped"]])
              ELSE Return([ret EXCEPT !.result = "False",
                             !.comment = <<"Failed to start volume">>])
    /\ UNCHANGED <<peers, l_peers, l_volumes, l_current_bricks, resolved>>
    /\ Frame

-----------------------------------------------------------------------------
(* add_volume_bricks(name, bricks) *)

(* Mutation: the lists are compared as lists, order and all. *)
MissingBricksOrdered(b, current) == IF b = current THEN {} ELSE Range(b)

(* set(bricks) - set(current_bricks) *)
MissingBricks(b, current) == Range(b) \ Range(current)

CallAddVolumeBricks(n, b) ==
    /\ Begin("add_volume_bricks", n, b, FALSE)
    /\ ret' = NewRet(n)
    /\ pc' = "avb_info"

(* Mutation: the status of the volume is not looked at. *)
AddVolumeBricksInfoAnyStatus ==
    /\ pc = "avb_info"
    /\ acts' = Used("glusterfs.info")
    /\ IF name \notin DOMAIN volinfo
         THEN /\ Return([ret EXCEPT !.comment =
                     <<"Volume {0} does not exist, cannot add bricks into it">>])
              /\ UNCHANGED l_current_bricks
         ELSE /\ l_current_bricks' = volinfo[name].bricks
              /\ IF MissingBricks(bricks, volinfo[name].bricks) = {}
                   THEN Return([ret EXCEPT !.result = "True",
                                  !.comment = <<"Bricks already added in volume {0}">>])
                   ELSE pc' = "avb_add" /\ UNCHANGED ret
    /\ UNCHANGED <<peers, volinfo, l_peers, l_volumes, resolved, outcomes>>
    /\ Frame

AddVolumeBricksInfo ==
    /\ pc = "avb_info"
    /\ acts' = Used("glusterfs.info")
    /\ IF name \notin DOMAIN volinfo
         THEN /\ Return([ret EXCEPT !.comment =
                     <<"Volume {0} does not exist, cannot add bricks into it">>])
              /\ UNCHANGED l_current_bricks
       ELSE IF int(volinfo[name].status) # 1
         THEN /\ Return([ret EXCEPT !.comment =
                     <<"Volume {0} is not started, cannot add bricks into it">>])
              /\ UNCHANGED l_current_bricks
       ELSE /\ l_current_bricks' = volinfo[name].bricks
            /\ IF MissingBricks(bricks, volinfo[name].bricks) = {}
                 THEN Return([ret EXCEPT !.result = "True",
                                !.comment = <<"Bricks already added in volume {0}">>])
                 ELSE pc' = "avb_add" /\ UNCHANGED ret
    /\ UNCHANGED <<peers, volinfo, l_peers, l_volumes, resolved, outcomes>>
    /\ Frame

AddVolumeBricksAdd ==
    /\ pc = "avb_add"
    /\ acts' = Used("glusterfs.add_volume_bricks")
    /\ \E o \in Outcomes :
         /\ volinfo' = IF o.effect /\ name \in DOMAIN volinfo
                         THEN [volinfo EXCEPT ![name].bricks = Extend(@, bricks)]
                         ELSE volinfo
         /\ outcomes' = outcomes \cup {Kind(o, name \in DOMAIN volinfo)}
         /\ IF o.reported
              THEN /\ pc' = "avb_requery"
                   /\ ret' = [ret EXCEPT !.result = "True",
                        !.comment = <<"Bricks successfully added to volume {0}">>]
              ELSE Return([ret EXCEPT !.comment =
                     <<"Adding bricks to volume {0} failed">>])
    /\ UNCHANGED <<peers, l_peers, l_volumes, l_current_bricks, resolved>>
    /\ Frame

(* Line 286: glusterfs.info()[name] raises KeyError when the volume is     *)
(* not in the answer.                                                      *)
AddVolumeBricksRequery ==
    /\ pc = "avb_requery"
    /\ acts' = Used("glusterfs.info")
    /\ IF name \notin DOMAIN volinfo
         THEN pc' = "raised" /\ UNCHANGED ret
         ELSE Return([ret EXCEPT !.changes =
                [new |-> volinfo[name].bricks, old |-> l_current_bricks]])
    /\ UNCHANGED <<peers, volinfo, l_peers, l_volumes, l_current_bricks, resolved, outcomes>>
    /\ Frame

-----------------------------------------------------------------------------
(* The cluster is changed from outside the running call: another           *)
(* administrator sets the peer set, or creates, deletes or alters a        *)
(* volume.                                                                 *)

VolumeStates == [status : Statuses, bricks : BrickLists]

Outside == UNCHANGED <<test, pc, op, name, bricks, start, ret, l_peers, l_volumes,
                       l_current_bricks, acts, resolved, before, outcomes, prev,
                       ncalls>>

ExternalPeers(ps) ==
    /\ ext < MaxExternal
    /\ ps # peers
    /\ peers' = ps
    /\ ext' = ext + 1
    /\ quiet' = FALSE
    /\ UNCHANGED volinfo
    /\ Outside

ExternalVolume(n, v) ==
    /\ ext < MaxExternal
    /\ volinfo' = WithVolume(volinfo, n, v)
    /\ volinfo' # volinfo
    /\ ext' = ext + 1
    /\ quiet' = FALSE
    /\ UNCHANGED peers
    /\ Outside

ExternalDelete(n) ==
    /\ ext < MaxExternal
    /\ n \in DOMAIN volinfo
    /\ volinfo' = WithoutVolume(volinfo, n)
    /\ ext' = ext + 1
    /\ quiet' = FALSE
    /\ UNCHANGED peers
    /\ Outside

-----------------------------------------------------------------------------
Next ==
    \/ \E n \in Names : CallPeered(n)
    \/ PeeredResolve
    \/ PeeredListPeers
    \/ PeeredPeer
    \/ PeeredVerify
    \/ \E n \in Names, b \in BrickArgs, s \in BOOLEAN : CallVolumePresent(n, b, s)
    \/ VolumePresentList
    \/ VolumePresentCreate
    \/ VolumePresentRelist
    \/ VolumePresentInfo
    \/ VolumePresentStart
    \/ \E n \in Names : CallStarted(n)
    \/ StartedInfo
    \/ StartedStart
    \/ \E n \in Names, b \in BrickArgs : CallAddVolumeBricks(n, b)
    \/ AddVolumeBricksInfo
    \/ AddVolumeBricksAdd
    \/ AddVolumeBricksRequery
    \/ \E ps \in SUBSET Names : ExternalPeers(ps)
    \/ \E n \in Names, v \in VolumeStates : ExternalVolume(n, v)
    \/ \E n \in Names : ExternalDelete(n)

Spec == Init /\ [][Next]_vars

-----------------------------------------------------------------------------
(* Vocabulary of the properties *)

StateChanging == { "glusterfs.peer", "glusterfs.create_volume",
                   "glusterfs.start_volume", "glusterfs.add_volume_bricks" }

(* How many state-changing actions a call with the counters a invoked. *)
ActionsInvoked(a) ==
    a["glusterfs.peer"] + a["glusterfs.create_volume"]
      + a["glusterfs.start_volume"] + a["glusterfs.add_volume_bricks"]

(* The running call has returned its dict / has ended one way or another. *)
Returned == pc = "done"
Ended_ == pc \in {"done", "raised"}

(* The four outcomes of the specification, read off a returned dict. *)
Converged(r) == r.result = "True" /\ Truthy(r.changes)
Unchanged(r) == r.result = "True" /\ ~Truthy(r.changes)
Failed(r) == r.result = "False" /\ ~Truthy(r.changes)

(* Volume n exists in the cluster state info and is started. *)
StartedIn(info, n) == n \in DOMAIN info /\ info[n].status = "1"

(* The state the running call is asked to bring about, in the live cluster. *)
Desired ==
    CASE op = "peered" -> name \in peers
      [] op = "volume_present" ->
           name \in DOMAIN volinfo /\ (start => StartedIn(volinfo, name))
      [] op = "started" -> StartedIn(volinfo, name)
      [] op = "add_volume_bricks" ->
           name \in DOMAIN volinfo /\ Range(bricks) \subseteq Range(volinfo[name].bricks)
      [] OTHER -> TRUE

-----------------------------------------------------------------------------
(* C1: a returned dict has non-empty `changes` exactly when the call       *)
(* invoked a state-changing action and reports result True; a Failed       *)
(* result never carries changes and a successful call that acted never     *)
(* returns empty changes.                                                  *)
C1_ChangesIffConverged ==
    Returned =>
      (Truthy(ret.changes) <=> (ret.result = "True" /\ ActionsInvoked(acts) > 0))

(* C2: no call returns result True after invoking a state-changing action  *)
(* unless a query after the action showed the desired state. With nobody   *)
(* else changing the cluster during the call, such a query shows the       *)
(* desired state only if the cluster is in it when the call returns.       *)
C2_ConvergedOnlyWhenConfirmed ==
    (Returned /\ quiet /\ ret.result = "True" /\ ActionsInvoked(acts) > 0) => Desired

(* C3: dry-run purity: with __opts__['test'] true no reconciler invokes a  *)
(* state-changing action, no step of a call changes the live cluster, and  *)
(* no call returns result True with non-empty changes.                     *)
C3_DryRunPurity ==
    /\ [](test => (ActionsInvoked(acts) = 0 /\ (Returned => ~Converged(ret))))
    /\ [][(test /\ ext' = ext) => (peers' = peers /\ volinfo' = volinfo)]_vars

(* C4: every reconciler call ends by returning its dict; no exception      *)
(* leaves a call.                                                          *)
C4_EveryCallReturns == pc # "raised"

(* C5: volume_present with a name that has a character outside             *)
(* a-zA-Z0-9._- returns result False with empty changes and has used no    *)
(* query and no action, whatever test and start are.                       *)
C5_ValidationPrecedesQuery ==
    (op = "volume_present" /\ check_name(name)) =>
      (Returned /\ Failed(ret) /\ acts = NoActs /\ outcomes = {})

C5_Witness ==
    /\ op = "volume_present" /\ check_name(name) /\ Returned
    /\ start /\ ~test
    /\ ret.comment = <<"Invalid characters in volume name.">>

(* C6: peered with a name that has a character outside a-zA-Z0-9._- never  *)
(* queries the peer list and never invokes the peer action, and when the   *)
(* name resolves the call returns result False, whatever the peer set      *)
(* holds and whether or not the name is local.                             *)
C6_PeeredValidatesFirst ==
    (op = "peered" /\ check_name(name)) =>
      /\ acts["glusterfs.list_peers"] = 0
      /\ acts["glusterfs.peer"] = 0
      /\ (Ended_ /\ resolved # "unresolved") => (Returned /\ Failed(ret))

(* C7: when the target is in the peer set, two calls of peered with it in  *)
(* a row, with no change of the cluster from outside and the same answer   *)
(* of the resolver, both return result True with empty changes and neither *)
(* invokes the peer action, for either value of test.                      *)
C7_PeeredIdempotent ==
    ( /\ prev.op = "peered" /\ op = "peered" /\ prev.name = name
      /\ name \in prev.before.peers
      /\ prev.quiet /\ quiet
      /\ prev.resolved = resolved
      /\ Ended_ ) =>
      /\ prev.pc = "done" /\ Unchanged(prev.ret) /\ prev.acts["glusterfs.peer"] = 0
      /\ Returned /\ Unchanged(ret) /\ acts["glusterfs.peer"] = 0

(* C8: when the name resolves to a local address peered returns result     *)
(* True with empty changes without querying the peer list and without      *)
(* invoking the peer action, also for a name check_name would reject.      *)
C8_SelfPeerShortCircuit ==
    (op = "peered" /\ resolved = "local") =>
      /\ Returned /\ Unchanged(ret)
      /\ acts["glusterfs.list_peers"] = 0
      /\ acts["glusterfs.peer"] = 0
      /\ outcomes = {}

C8_Witness ==
    /\ op = "peered" /\ resolved = "local" /\ Returned
    /\ check_name(name) /\ name \notin peers
    /\ ret.comment = <<"Peering with localhost is not needed">>

(* C9: add_volume_bricks on an existing, started volume, nobody else       *)
(* changing the cluster: when every requested brick is already there the   *)
(* call returns result True with empty changes and does not invoke the     *)
(* add-bricks action; otherwise, when it returns with changes, changes.new *)
(* contains every brick of changes.old and every requested brick.          *)
C9_BrickSetMonotone ==
    ( /\ op = "add_volume_bricks" /\ Returned /\ quiet
      /\ StartedIn(before.volinfo, name) ) =>
      IF Range(bricks) \subseteq Range(before.volinfo[name].bricks)
        THEN Unchanged(ret) /\ acts["glusterfs.add_volume_bricks"] = 0
        ELSE Truthy(ret.changes) =>
               Range(ret.changes.old) \cup Range(bricks) \subseteq Range(ret.changes.new)

(* C10: test off, every executor action succeeding with effect, nobody     *)
(* else changing the cluster: volume_present(name, bricks, start=True) for *)
(* a well-formed name of a volume that does not exist returns result True  *)
(* with non-empty changes and a comment naming the creation and the start, *)
(* and the volume then exists and is started; the same call made again     *)
(* returns result True with empty changes and invokes neither create nor   *)
(* start.                                                                  *)
TwoPhaseFirst(c) ==
    /\ c.op = "volume_present" /\ c.start /\ ~test /\ ~check_name(c.name)
    /\ c.name \notin DOMAIN c.before.volinfo
    /\ c.quiet /\ c.outcomes \subseteq {"ok"}
    /\ c.pc \in {"done", "raised"}

C10_TwoPhaseConvergence ==
    /\ TwoPhaseFirst(Ended) =>
         /\ Returned /\ Converged(ret)
         /\ Len(ret.comment) = 2
         /\ ret.comment[1] = "Volume {0} is created"
         /\ ret.comment[2] \in {" and is started", " and is now started"}
         /\ StartedIn(volinfo, name)
    /\ ( /\ prev.op = "volume_present" /\ TwoPhaseFirst(prev)
         /\ op = "volume_present" /\ name = prev.name /\ bricks = prev.bricks /\ start
         /\ quiet /\ Ended_ ) =>
         /\ Returned /\ Unchanged(ret)
         /\ acts["glusterfs.create_volume"] = 0
         /\ acts["glusterfs.start_volume"] = 0

C10_Witness ==
    /\ prev.op = "volume_present" /\ TwoPhaseFirst(prev)
    /\ prev.acts["glusterfs.create_volume"] = 1
    /\ prev.acts["glusterfs.start_volume"] = 1
    /\ op = "volume_present" /\ name = prev.name /\ bricks = prev.bricks /\ start
    /\ quiet /\ Returned
    /\ ret.comment = <<"Volume {0} already exists", " and is started">>

(* C11: volume_present with test off and start=False: when the name is not *)
(* in the listed volumes, create_volume reports success and the volumes    *)
(* listed again hold the name, the call returns result True with           *)
(* changes.old the first list (without the name) and changes.new the       *)
(* second (with it), and uses neither start_volume nor glusterfs.info.     *)
C11_CreationOnly ==
    /\ []( ( /\ op = "volume_present" /\ ~start /\ ~test /\ Returned
             /\ acts["glusterfs.create_volume"] = 1 /\ "failed" \notin outcomes
             /\ name \in l_volumes ) =>
           ( /\ Converged(ret)
             /\ name \notin ret.changes.old
             /\ ret.changes.new = l_volumes
             /\ acts["glusterfs.start_volume"] = 0
             /\ acts["glusterfs.info"] = 0
             /\ quiet => ( /\ ret.changes.old = DOMAIN before.volinfo
                           /\ ret.changes.new = DOMAIN volinfo ) ) )
    /\ [][ ( /\ op = "volume_present" /\ ~start
             /\ pc = "vp_relist" /\ pc' # pc
             /\ name \in DOMAIN volinfo ) =>
           ( /\ pc' = "done" /\ Converged(ret')
             /\ ret'.changes.old = l_volumes
             /\ ret'.changes.new = DOMAIN volinfo ) ]_vars

C11_Witness ==
    /\ op = "volume_present" /\ ~start /\ ~test /\ Returned /\ quiet
    /\ acts["glusterfs.create_volume"] = 1 /\ outcomes = {"ok"}
    /\ Converged(ret)
    /\ ret.changes.old = {} /\ ret.changes.new = {name}
    /\ ret.comment = <<"Volume {0} is created">>

(* C12: started on an existing volume that is not started, test off: when  *)
(* start_volume reports success the dict has result True and changes       *)
(* {old: stopped, new: started}; when it reports failure the dict has      *)
(* result False and empty changes.                                         *)
C12_StartedChanges ==
    ( /\ op = "started" /\ Returned /\ acts["glusterfs.start_volume"] = 1 ) =>
      IF "failed" \in outcomes
        THEN Failed(ret)
        ELSE /\ ret.result = "True"
             /\ Truthy(ret.changes)
             /\ ret.changes = [new |-> "started", old |-> "stopped"]

(* C13: the comment of every returned dict is a non-empty string.          *)
C13_CommentPopulated == Returned => ret.comment # <<>>

(* C14: add_volume_bricks whose glusterfs.info answer lacks the volume, or *)
(* shows it not started, returns result False with empty changes, never    *)
(* invokes the add-bricks action and leaves the cluster alone, whatever    *)
(* `bricks` holds.                                                         *)
C14_PreconditionNoEffect ==
    /\ []( ( /\ op = "add_volume_bricks" /\ quiet /\ pc # "avb_info"
             /\ ~StartedIn(before.volinfo, name) ) =>
           ( /\ Returned /\ Failed(ret)
             /\ acts["glusterfs.add_volume_bricks"] = 0
             /\ outcomes = {}
             /\ volinfo = before.volinfo /\ peers = before.peers ) )
    /\ [][ ( /\ pc = "avb_info" /\ pc' # pc
             /\ ~StartedIn(volinfo, name) ) =>
           ( /\ pc' = "done" /\ Failed(ret')
             /\ acts'["glusterfs.add_volume_bricks"] = 0
             /\ volinfo' = volinfo /\ peers' = peers ) ]_vars

C14_Witness ==
    /\ op = "add_volume_bricks" /\ Returned /\ quiet
    /\ name \in DOMAIN before.volinfo /\ before.volinfo[name].status = "0"
    /\ Range(bricks) \ Range(before.volinfo[name].bricks) # {}
    /\ ret.comment = <<"Volume {0} is not started, cannot add bricks into it">>

(* C15: peered with test off for a well-formed, non-local name that the    *)
(* peer list lacks: when the peer action reports failure the call returns  *)
(* result False without reading the peer list again; when it reports       *)
(* success the list is read again, and the call returns result False with  *)
(* empty changes if the list lacks the name, and result True with changes  *)
(* {old: the list before, new: the list after} if it holds the name.       *)
C15_ConvergenceMismatch ==
    /\ []( pc \in {"p_peer", "p_verify"} =>
             ( /\ ~test /\ ~check_name(name) /\ resolved = "remote"
               /\ name \notin l_peers
               /\ acts["glusterfs.list_peers"] = 1 ) )
    /\ []( ( /\ op = "peered" /\ Returned /\ acts["glusterfs.peer"] = 1 ) =>
             IF "failed" \in outcomes
               THEN Failed(ret) /\ acts["glusterfs.list_peers"] = 1
               ELSE /\ acts["glusterfs.list_peers"] = 2
                    /\ Failed(ret) \/ ( /\ Converged(ret)
                                        /\ ret.changes.old = l_peers
                                        /\ name \in ret.changes.new ) )
    /\ [][ ( pc = "p_verify" /\ pc' # pc ) =>
           ( /\ pc' = "done"
             /\ IF name \in peers
                  THEN /\ Converged(ret')
                       /\ ret'.changes = [new |-> peers, old |-> l_peers]
                  ELSE Failed(ret') ) ]_vars

C15_Witness ==
    /\ op = "peered" /\ Returned /\ quiet
    /\ acts["glusterfs.peer"] = 1 /\ outcomes = {"lied"}
    /\ acts["glusterfs.list_peers"] = 2
    /\ Failed(ret)
    /\ ret.comment =
         <<"Host {0} was successfully peered but did not appear in the list of peers">>

(* C16: volume_present with start for a volume that exists and is started  *)
(* returns result True with empty changes and a comment ending in          *)
(* " and is started", whether test is on or off.                           *)
C16_StartedCheckBeforeDryRun ==
    ( /\ op = "volume_present" /\ start /\ ~check_name(name)
      /\ quiet /\ Ended_
      /\ StartedIn(before.volinfo, name) ) =>
      ( /\ Returned /\ Unchanged(ret)
        /\ Len(ret.comment) > 0
        /\ ret.comment[Len(ret.comment)] = " and is started" )

(* C17: within one call every state-changing action is invoked at most     *)
(* once, and the step that reads the cluster and finds the desired state   *)
(* (peer there, volume there, volume started, no brick missing) never      *)
(* leads to the action.                                                    *)
C17_NoRetries ==
    /\ [](\A f \in StateChanging : acts[f] <= 1)
    /\ []( ( /\ quiet /\ op = "peered" /\ name \in before.peers ) =>
             acts["glusterfs.peer"] = 0 )
    /\ []( ( /\ quiet /\ op = "volume_present" /\ name \in DOMAIN before.volinfo ) =>
             acts["glusterfs.create_volume"] = 0 )
    /\ []( ( /\ quiet /\ op \in {"volume_present", "started"}
             /\ StartedIn(before.volinfo, name) ) =>
             acts["glusterfs.start_volume"] = 0 )
    /\ []( ( /\ quiet /\ op = "add_volume_bricks" /\ name \in DOMAIN before.volinfo
             /\ Range(bricks) \subseteq Range(before.volinfo[name].bricks) ) =>
             acts["glusterfs.add_volume_bricks"] = 0 )
    /\ [][ /\ (pc = "p_list" /\ name \in peers) => pc' # "p_peer"
           /\ (pc = "vp_list" /\ name \in DOMAIN volinfo) => pc' # "vp_create"
           /\ (pc = "vp_info" /\ StartedIn(volinfo, name)) => pc' # "vp_start"
           /\ (pc = "st_info" /\ StartedIn(volinfo, name)) => pc' # "st_start"
           /\ ( /\ pc = "avb_info" /\ name \in DOMAIN volinfo
                /\ Range(bricks) \subseteq Range(volinfo[name].bricks) ) =>
                pc' # "avb_add"
           /\ \A f \in StateChanging : acts'[f] <= acts[f] + 1 ]_vars

C17_Witness ==
    /\ op = "volume_present" /\ start /\ Returned
    /\ acts["glusterfs.create_volume"] = 1
    /\ acts["glusterfs.start_volume"] = 1
    /\ "failed" \in outcomes
    /\ ret.result = "False"

(* C18: volume_present for a volume the list lacks: when create_volume     *)
(* reports failure the call returns at once with result False and empty    *)
(* changes, without listing the volumes again, reading glusterfs.info or   *)
(* invoking start_volume, start or not; under test it returns result None  *)
(* without invoking create_volume, glusterfs.info or start_volume.         *)
C18_ShortCircuit ==
    /\ []( ( /\ op = "volume_present" /\ "failed" \in outcomes
             /\ acts["glusterfs.start_volume"] = 0 ) =>
           ( /\ Returned /\ Failed(ret)
             /\ acts["glusterfs.create_volume"] = 1
             /\ acts["glusterfs.list_volumes"] = 1
             /\ acts["glusterfs.info"] = 0 ) )
    /\ []( ( op = "volume_present" /\ test ) =>
           ( /\ acts["glusterfs.create_volume"] = 0
             /\ acts["glusterfs.info"] = 0
             /\ acts["glusterfs.start_volume"] = 0 ) )
    /\ [][ ( /\ pc = "vp_list" /\ pc' # pc /\ test
             /\ name \notin DOMAIN volinfo ) =>
           ( /\ pc' = "done"
             /\ ret'.result = "None" /\ ~Truthy(ret'.changes)
             /\ ret'.comment[1] = "Volume {0} will be created"
             /\ volinfo' = volinfo ) ]_vars

C18_Witness ==
    /\ op = "volume_present" /\ start /\ ~test /\ Returned
    /\ acts["glusterfs.create_volume"] = 1 /\ outcomes = {"failed"}
    /\ acts["glusterfs.list_volumes"] = 1
    /\ ret.comment =
         <<"Creation of volume {0} failed. Check logs for further information">>

(* C19: whatever another actor does to the peer set between the steps of   *)
(* a peered call, a dict returned with non-empty changes has the name      *)
(* outside changes.old and inside changes.new, and the peer action was     *)
(* invoked exactly once in the call.                                       *)
C19_PeeredChangesUnderRace ==
    ( /\ op = "peered" /\ Returned /\ Truthy(ret.changes) ) =>
      ( /\ name \notin ret.changes.old
        /\ name \in ret.changes.new
        /\ acts["glusterfs.peer"] = 1 )

C19_Witness ==
    /\ op = "peered" /\ Returned /\ Truthy(ret.changes)
    /\ ~quiet /\ outcomes = {"lied"}
    /\ name \in ret.changes.new

(* C20: test off, no executor reporting success without effect, nobody     *)
(* else changing the cluster: after started(name) or                       *)
(* add_volume_bricks(name, bricks) returned result True, the same call     *)
(* made again returns result True with empty changes and invokes no        *)
(* state-changing action.                                                  *)
C20_RepeatIsNoOp ==
    ( /\ prev.op \in {"started", "add_volume_bricks"} /\ op = prev.op
      /\ ~test
      /\ prev.quiet /\ "lied" \notin prev.outcomes
      /\ prev.pc = "done" /\ prev.ret.result = "True"
      /\ quiet
      /\ Ended_ ) =>
      ( /\ Returned /\ Unchanged(ret)
        /\ ActionsInvoked(acts) = 0 )

C20_Witness ==
    /\ prev.op = "add_volume_bricks" /\ op = "add_volume_bricks"
    /\ ~test /\ prev.quiet /\ quiet
    /\ prev.pc = "done" /\ prev.ret.result = "True"
    /\ prev.acts["glusterfs.add_volume_bricks"] = 1 /\ prev.outcomes = {"ok"}
    /\ Returned
    /\ ret.comment = <<"Bricks already added in volume {0}">>

====
